---- MODULE Spec2Model ----
(***************************************************************************)
(* Model of the process-scheduler simulator: fcfs_scheduling.py, sjf.py,   *)
(* rr.py, priority_scheduling.py and the logic_* methods of main.py.       *)
(* One run of one scheduling function is one behaviour: Init draws the     *)
(* function (alg), the input list and the quantum; every action is one     *)
(* iteration (or one branch of an iteration) of that function's loop.      *)
(***************************************************************************)
EXTENDS Integers, Sequences, FiniteSets, TLC

\* ---------------------------------------------------------------- bounds
MaxN == 3          \* longest input list
MaxArrival == 2    \* largest arrival time drawn
MaxBurst == 3      \* largest burst time drawn
MaxPriority == 2   \* priorities drawn from 1..MaxPriority
MaxQuantum == 2    \* quanta drawn from 1..MaxQuantum
MaxInvalid == 1    \* unvalidated arrivals, bursts and quanta go down to -MaxInvalid
MaxTime == 20      \* a loop that only advances the clock is followed up to here
MaxSegments == 20  \* a loop that only emits segments is followed up to here

\* Python's None (sjf.py Process.completion before the process finishes)
None == -1

\* a variable that holds nothing yet
NoValue == <<>>

VARIABLES
    alg,                 \* the scheduling function being run
    input,               \* the caller's list: <<[arrival, burst, priority]>>, pid = position
    time_quantum,        \* rr.py time_quantum / main.py q
    processes,           \* the list the function works on (objects or dicts)
    time,                \* time / current_time / t
    gantt,               \* gantt / gantt_chart / gantt_log
    queue,               \* rr.py queue, main.py queue: positions in processes
    arrived,             \* rr.py arrived[]
    completed,           \* completed / count
    completed_processes, \* priority_scheduling.py completed_processes
    comp,                \* main.py comp[] of logic_sjf and logic_priority
    visited,             \* main.py visited[] of logic_rr
    res,                 \* main.py res: positions in processes, in completion order
    current_process,     \* sjf_preemptive current_process (0 = None)
    idx,                 \* fcfs for-loop position
    ret,                 \* the aggregates returned by fcfs_scheduling and
                         \* priority_scheduling (NoValue until the return)
    prev,                \* what an earlier call on the same input returned
                         \* (NoValue during the first call)
    pc                   \* "entry" before the entry code of priority_scheduling and
                         \* logic_rr, "run" at the loop test, "done" after return,
                         \* "error" after an uncaught exception

vars == <<alg, input, time_quantum, processes, time, gantt, queue, arrived,
          completed, completed_processes, comp, visited, res, current_process, idx,
          ret, prev, pc>>

\* ---------------------------------------------------------------- helpers
Algs == {"fcfs_scheduling", "sjf_non_preemptive", "sjf_preemptive", "round_robin",
         "priority_scheduling", "logic_fcfs", "logic_sjf", "logic_priority", "logic_rr"}

UsesPriority(a) == a \in {"priority_scheduling", "logic_priority"}
UsesQuantum(a) == a \in {"round_robin", "logic_rr"}

\* faulty variant of Min2: a full quantum is always run
Min2Second(a, b) == b

\* Python min(a, b)
Min2(a, b) == IF a <= b THEN a ELSE b

\* faulty variant of Div: floor division a // b
DivFloor(a, b) == <<a \div b, 1>>

\* Python true division a / b of integers, kept exact as <<numerator, denominator>>
Div(a, b) == <<a, b>>

\* the number 0 returned in place of a quotient
Zero == <<0, 1>>

\* two exact quotients denote the same number
SameNumber(x, y) == x[1] * y[2] = y[1] * x[2]

\* Python round(x, 2) of the quotient x with a positive denominator, in
\* hundredths (ties to even)
Round2(x) ==
    LET q == (x[1] * 100) \div x[2]
        r == (x[1] * 100) % x[2]
    IN IF 2 * r < x[2] THEN q
       ELSE IF 2 * r > x[2] THEN q + 1
       ELSE IF q % 2 = 0 THEN q ELSE q + 1

RECURSIVE SumSeq(_)
SumSeq(s) == IF s = <<>> THEN 0 ELSE Head(s) + SumSeq(Tail(s))

\* faulty variant of InsertByArrival: the element goes before those of equal
\* key, which reverses the order of ties
RECURSIVE InsertByArrivalBeforeEqual(_, _)
InsertByArrivalBeforeEqual(p, s) ==
    IF s = <<>> THEN <<p>>
    ELSE IF p.arrival <= Head(s).arrival THEN <<p>> \o s
    ELSE <<Head(s)>> \o InsertByArrivalBeforeEqual(p, Tail(s))

\* Python list.insert keeping equal keys in original order (helper of sorted)
RECURSIVE InsertByArrival(_, _)
InsertByArrival(p, s) ==
    IF s = <<>> THEN <<p>>
    ELSE IF p.arrival < Head(s).arrival THEN <<p>> \o s
    ELSE <<Head(s)>> \o InsertByArrival(p, Tail(s))

\* faulty variant of SortByArrival: the list is left in the caller's order
SortByArrivalKeepOrder(s) == s

\* sorted(processes, key=arrival) / list.sort(key=arrival): stable, ascending
RECURSIVE SortByArrival(_)
SortByArrival(s) ==
    IF s = <<>> THEN <<>>
    ELSE InsertByArrival(s[Len(s)], SortByArrival(SubSeq(s, 1, Len(s) - 1)))

\* Python min(iterable, key=...): the FIRST element of the iteration order
\* whose key is minimal.  cand is an ascending sequence of positions, key a
\* function on positions.
MinByKey(cand, key) ==
    cand[CHOOSE k \in 1..Len(cand) :
            /\ \A j \in 1..Len(cand) : key[cand[k]] <= key[cand[j]]
            /\ \A j \in 1..(k - 1) : key[cand[j]] # key[cand[k]]]

\* list comprehension [i for i in range(n) if P(i)] as an ascending sequence
RECURSIVE Filter(_, _, _)
Filter(k, n, S) ==
    IF k > n THEN <<>>
    ELSE (IF k \in S THEN <<k>> ELSE <<>>) \o Filter(k + 1, n, S)

\* Process objects.  sjf.py and rr.py name the fields arrival/burst/...,
\* main.py and the dict-based modules arrival_time/burst_time/...; the model
\* uses the short names for all of them.
MkProcess(a, k, rec) ==
    [pid |-> k, arrival |-> rec.arrival, burst |-> rec.burst, priority |-> rec.priority,
     remaining |-> rec.burst,
     start |-> 0,
     completion |-> IF a \in {"sjf_non_preemptive", "sjf_preemptive"} THEN None ELSE 0,
     turnaround |-> 0, waiting |-> 0]

\* the dicts handed to priority_scheduling: exactly the four documented keys
MkDict(k, rec) ==
    [pid |-> k, arrival_time |-> rec.arrival, burst_time |-> rec.burst,
     priority |-> rec.priority]

Objects(a, inp) == [k \in 1..Len(inp) |-> MkProcess(a, k, inp[k])]

\* ---------------------------------------------------------------- Init
\* the parameters of one process handed to function a (the priority is read
\* by the priority functions only)
ParamsOf(a, Arrivals, BurstTimes) ==
    [arrival : Arrivals, burst : BurstTimes,
     priority : IF UsesPriority(a) THEN 1..MaxPriority ELSE {1}]

\* valid parameters: arrival >= 0, burst > 0
ProcParams(a) == ParamsOf(a, 0..MaxArrival, 1..MaxBurst)

\* the list a function works on when handed the objects objs: sorted() and
\* list.sort() order it by arrival, the other functions take it as it is
WorkingList(a, objs) ==
    IF a \in {"fcfs_scheduling", "round_robin", "logic_fcfs", "logic_rr"}
      THEN SortByArrival(objs) ELSE objs

\* the caller's list for function a built from the parameters inp
CallerList(a, inp) ==
    IF a = "priority_scheduling"
      THEN [k \in 1..Len(inp) |-> MkDict(k, inp[k])]
      ELSE Objects(a, inp)

\* the first call: the state of function a after its local variables are
\* initialised (and the list is sorted, where the function sorts it);
\* priority_scheduling and logic_rr still have their entry code to run
\* (pc = "entry")
Enter(a, list) ==
    /\ processes = (IF a = "priority_scheduling" THEN list ELSE WorkingList(a, list))
    /\ time = 0
    /\ gantt = <<>>
    /\ queue = <<>>
    /\ arrived = [k \in 1..Len(list) |-> FALSE]
    /\ completed = 0
    /\ completed_processes = <<>>
    /\ comp = [k \in 1..Len(list) |-> FALSE]
    /\ visited = [k \in 1..Len(list) |-> FALSE]
    /\ res = <<>>
    /\ current_process = 0
    /\ idx = 1
    /\ ret = NoValue
    /\ pc = (IF a \in {"priority_scheduling", "logic_rr"} THEN "entry" ELSE "run")

\* a later call: function a is entered on list, its locals replace those of
\* the call that returned
Call(a, list) ==
    /\ processes' = (IF a = "priority_scheduling" THEN list ELSE WorkingList(a, list))
    /\ time' = 0
    /\ gantt' = <<>>
    /\ queue' = <<>>
    /\ arrived' = [k \in 1..Len(list) |-> FALSE]
    /\ completed' = 0
    /\ completed_processes' = <<>>
    /\ comp' = [k \in 1..Len(list) |-> FALSE]
    /\ visited' = [k \in 1..Len(list) |-> FALSE]
    /\ res' = <<>>
    /\ current_process' = 0
    /\ idx' = 1
    /\ ret' = NoValue
    /\ pc' = (IF a \in {"priority_scheduling", "logic_rr"} THEN "entry" ELSE "run")

\* a first call of a function of A on a list of a length in Lens, with
\* arrivals, bursts and the quantum drawn from the given sets
InitWith(A, Lens, Arrivals, BurstTimes, Quanta) ==
    /\ alg \in A
    /\ \E len \in Lens : input \in [1..len -> ParamsOf(alg, Arrivals, BurstTimes)]
    /\ time_quantum \in (IF UsesQuantum(alg) THEN Quanta ELSE {0})
    /\ prev = NoValue
    /\ Enter(alg, CallerList(alg, input))

\* valid inputs: arrival >= 0, burst > 0, quantum > 0
InitOf(A) == InitWith(A, 0..MaxN, 0..MaxArrival, 1..MaxBurst, 1..MaxQuantum)

Init == InitOf(Algs)

n == Len(processes)

\* ---------------------------------------------------------------- fcfs_scheduling.py
\* faulty variant of StartAt: the clock is forgotten, every process starts at
\* its arrival
StartAtArrival(current_time, arrival_time) == arrival_time

\* `if current_time < arrival_time: current_time = arrival_time`
StartAt(current_time, arrival_time) ==
    IF current_time < arrival_time THEN arrival_time ELSE current_time

\* one iteration of `for process in sorted_processes`
fcfs_scheduling_step ==
    /\ alg = "fcfs_scheduling" /\ pc = "run" /\ idx <= n
    /\ LET process == processes[idx]
           current_time == StartAt(time, process.arrival)
           start_time == current_time
           completion_time == current_time + process.burst
           waiting_time == start_time - process.arrival
           turnaround_time == completion_time - process.arrival
       IN /\ processes' = [processes EXCEPT ![idx] =
                 [process EXCEPT !.start = start_time, !.completion = completion_time,
                                 !.waiting = waiting_time, !.turnaround = turnaround_time]]
          /\ gantt' = Append(gantt, <<process.pid, start_time, completion_time>>)
          /\ time' = completion_time
    /\ idx' = idx + 1
    /\ UNCHANGED <<alg, input, time_quantum, ret, prev, comp, visited, res,
                   queue, arrived, completed,
                   completed_processes, current_process, pc>>

\* Steps 9-11: the for loop is exhausted, the aggregates are computed and the
\* function returns
fcfs_scheduling_return ==
    /\ alg = "fcfs_scheduling" /\ pc = "run" /\ idx > n
    /\ LET total_waiting_time == SumSeq([k \in 1..n |-> processes[k].waiting])
           total_turnaround_time == SumSeq([k \in 1..n |-> processes[k].turnaround])
           num_processes == n
           total_burst_time == SumSeq([k \in 1..n |-> processes[k].burst])
           total_time == IF n > 0 THEN time - processes[1].arrival ELSE 0
       IN ret' = [avg_waiting_time |->
                     IF num_processes > 0
                       THEN Div(total_waiting_time, num_processes) ELSE Zero,
                  avg_turnaround_time |->
                     IF num_processes > 0
                       THEN Div(total_turnaround_time, num_processes) ELSE Zero,
                  cpu_utilization |->
                     IF total_time > 0
                       THEN Div(total_burst_time * 100, total_time) ELSE Zero]
    /\ pc' = "done"
    /\ UNCHANGED <<alg, input, time_quantum, prev, comp, visited, res,
                   processes, time, gantt, queue, arrived,
                   completed, completed_processes, current_process, idx>>

NextFcfs == fcfs_scheduling_step \/ fcfs_scheduling_return

\* ---------------------------------------------------------------- sjf.py
\* faulty variant of ReadyNonPreemptive: a process is ready only after its
\* arrival time has passed
ReadyNonPreemptiveAfterArrival ==
    Filter(1, n, {k \in 1..n : processes[k].arrival < time
                               /\ processes[k].completion = None})

\* faulty variant of ReadyNonPreemptive: `p.completion is None` is dropped
ReadyNonPreemptiveAnyCompletion ==
    Filter(1, n, {k \in 1..n : processes[k].arrival <= time})

\* ready_queue of sjf_non_preemptive, as positions in list order
ReadyNonPreemptive ==
    Filter(1, n, {k \in 1..n : processes[k].arrival <= time
                               /\ processes[k].completion = None})

\* faulty variant of ReadyPreemptive: `p.arrival <= time` is dropped
ReadyPreemptiveAnyArrival ==
    Filter(1, n, {k \in 1..n : processes[k].remaining > 0})

\* ready_queue of sjf_preemptive
ReadyPreemptive ==
    Filter(1, n, {k \in 1..n : processes[k].arrival <= time
                               /\ processes[k].remaining > 0})

BurstKey == [k \in 1..n |-> processes[k].burst]
RemainingKey == [k \in 1..n |-> processes[k].remaining]

\* min(ready_queue, key=lambda p: p.burst)
SelectShortestBurst(ready) == MinByKey(ready, BurstKey)

\* faulty variant of SelectShortestRemaining: the first ready process of the
\* list is taken whatever its remaining time
SelectFirstReady(ready) == ready[1]

\* min(ready_queue, key=lambda p: p.remaining)
SelectShortestRemaining(ready) == MinByKey(ready, RemainingKey)

\* `if not ready_queue: time += 1; continue`
sjf_non_preemptive_idle ==
    /\ alg = "sjf_non_preemptive" /\ pc = "run" /\ completed < n
    /\ time < MaxTime
    /\ ReadyNonPreemptive = <<>>
    /\ time' = time + 1
    /\ UNCHANGED <<alg, input, time_quantum, ret, prev, comp, visited, res,
                   processes, gantt, queue, arrived,
                   completed, completed_processes, current_process, idx, pc>>

\* one iteration that runs the selected process to completion
sjf_non_preemptive_run ==
    /\ alg = "sjf_non_preemptive" /\ pc = "run" /\ completed < n
    /\ ReadyNonPreemptive # <<>>
    /\ LET c == SelectShortestBurst(ReadyNonPreemptive)
           current == processes[c]
           start == time
           end == time + current.burst
           turnaround == end - current.arrival
       IN /\ time' = end
          /\ processes' = [processes EXCEPT ![c] =
                 [current EXCEPT !.completion = end, !.turnaround = turnaround,
                                 !.waiting = turnaround - current.burst]]
          /\ gantt' = Append(gantt, <<current.pid, start, end>>)
    /\ completed' = completed + 1
    /\ UNCHANGED <<alg, input, time_quantum, ret, prev, comp, visited, res,
                   queue, arrived, completed_processes,
                   current_process, idx, pc>>

sjf_non_preemptive_return ==
    /\ alg = "sjf_non_preemptive" /\ pc = "run" /\ ~(completed < n)
    /\ pc' = "done"
    /\ UNCHANGED <<alg, input, time_quantum, ret, prev, comp, visited, res,
                   processes, time, gantt, queue, arrived,
                   completed, completed_processes, current_process, idx>>

NextSjfNonPreemptive ==
    sjf_non_preemptive_idle \/ sjf_non_preemptive_run \/ sjf_non_preemptive_return

\* faulty variant of ContextSwitch: an entry is recorded for every unit
ContextSwitchEveryUnit(current, shortest) == TRUE

\* `if current_process != shortest`
ContextSwitch(current, shortest) == current # shortest

sjf_preemptive_idle ==
    /\ alg = "sjf_preemptive" /\ pc = "run" /\ completed < n
    /\ time < MaxTime
    /\ ReadyPreemptive = <<>>
    /\ time' = time + 1
    /\ UNCHANGED <<alg, input, time_quantum, ret, prev, comp, visited, res,
                   processes, gantt, queue, arrived,
                   completed, completed_processes, current_process, idx, pc>>

\* one unit-time iteration that executes the selected process
sjf_preemptive_run ==
    /\ alg = "sjf_preemptive" /\ pc = "run" /\ completed < n
    /\ ReadyPreemptive # <<>>
    /\ LET s == SelectShortestRemaining(ReadyPreemptive)
           shortest == processes[s]
           remaining == shortest.remaining - 1
           turnaround == (time + 1) - shortest.arrival
       IN /\ gantt' = IF ContextSwitch(current_process, s)
                        THEN Append(gantt, <<shortest.pid, time>>) ELSE gantt
          /\ current_process' = s
          /\ time' = time + 1
          /\ processes' = [processes EXCEPT ![s] =
                 IF remaining = 0
                   THEN [shortest EXCEPT !.remaining = remaining,
                                         !.completion = time + 1,
                                         !.turnaround = turnaround,
                                         !.waiting = turnaround - shortest.burst]
                   ELSE [shortest EXCEPT !.remaining = remaining]]
          /\ completed' = IF remaining = 0 THEN completed + 1 ELSE completed
    /\ UNCHANGED <<alg, input, time_quantum, ret, prev, comp, visited, res,
                   queue, arrived, completed_processes,
                   idx, pc>>

sjf_preemptive_return ==
    /\ alg = "sjf_preemptive" /\ pc = "run" /\ ~(completed < n)
    /\ pc' = "done"
    /\ UNCHANGED <<alg, input, time_quantum, ret, prev, comp, visited, res,
                   processes, time, gantt, queue, arrived,
                   completed, completed_processes, current_process, idx>>

NextSjfPreemptive ==
    sjf_preemptive_idle \/ sjf_preemptive_run \/ sjf_preemptive_return

\* ---------------------------------------------------------------- rr.py
\* faulty variant of ArrivedBy: `not arrived[i]` is dropped
ArrivedByUnmarked(hi, marks) ==
    Filter(1, n, {k \in 1..n : processes[k].arrival <= hi})

\* first scan: positions with arrival <= hi not yet marked, in list order
\* (the list is sorted by arrival)
ArrivedBy(hi, marks) ==
    Filter(1, n, {k \in 1..n : processes[k].arrival <= hi /\ ~marks[k]})

\* second scan: positions not yet marked with lo < arrival <= hi, in list order
NewArrivals(lo, hi, marks) ==
    Filter(1, n, {k \in 1..n : /\ processes[k].arrival > lo
                               /\ processes[k].arrival <= hi
                               /\ ~marks[k]})

Mark(marks, ks) == [k \in 1..n |-> marks[k] \/ (\E j \in 1..Len(ks) : ks[j] = k)]

\* queue and arrived after the scan at the top of the while loop
TopQueue == queue \o ArrivedBy(time, arrived)
TopArrived == Mark(arrived, ArrivedBy(time, arrived))

\* faulty variant of AfterSlice: the process that ran is re-appended before
\* the second scan
AfterSliceReturningFirst(q, c, start, end, marks, rem) ==
    (q \o (IF rem > 0 THEN <<c>> ELSE <<>>)) \o NewArrivals(start, end, marks)

\* queue after a slice [start, end] of position c: the second scan, then the
\* re-append of the process that just ran when it still has work
AfterSlice(q, c, start, end, marks, rem) ==
    (q \o NewArrivals(start, end, marks)) \o (IF rem > 0 THEN <<c>> ELSE <<>>)

\* arrival scan, then `if not queue: time += 1; continue`
round_robin_idle ==
    /\ alg = "round_robin" /\ pc = "run" /\ completed < n
    /\ time < MaxTime
    /\ TopQueue = <<>>
    /\ queue' = TopQueue
    /\ arrived' = TopArrived
    /\ time' = time + 1
    /\ UNCHANGED <<alg, input, time_quantum, ret, prev, comp, visited, res,
                   processes, gantt, completed,
                   completed_processes, current_process, idx, pc>>

\* arrival scan, dequeue, one slice, second scan, re-append or complete
round_robin_slice ==
    /\ alg = "round_robin" /\ pc = "run" /\ completed < n
    /\ Len(gantt) < MaxSegments
    /\ TopQueue # <<>>
    /\ LET c == Head(TopQueue)
           current == processes[c]
           start == time
           execute_time == Min2(current.remaining, time_quantum)
           end == time + execute_time
           remaining == current.remaining - execute_time
           turnaround == end - current.arrival
       IN /\ time' = end
          /\ gantt' = Append(gantt, <<current.pid, start, end>>)
          /\ queue' = AfterSlice(Tail(TopQueue), c, start, end, TopArrived, remaining)
          /\ arrived' = Mark(TopArrived, NewArrivals(start, end, TopArrived))
          /\ processes' = [processes EXCEPT ![c] =
                 IF remaining > 0
                   THEN [current EXCEPT !.remaining = remaining]
                   ELSE [current EXCEPT !.remaining = remaining,
                                        !.completion = end,
                                        !.turnaround = turnaround,
                                        !.waiting = turnaround - current.burst]]
          /\ completed' = IF remaining > 0 THEN completed ELSE completed + 1
    /\ UNCHANGED <<alg, input, time_quantum, ret, prev, comp, visited, res,
                   completed_processes, current_process, idx, pc>>

round_robin_return ==
    /\ alg = "round_robin" /\ pc = "run" /\ ~(completed < n)
    /\ pc' = "done"
    /\ UNCHANGED <<alg, input, time_quantum, ret, prev, comp, visited, res,
                   processes, time, gantt, queue, arrived,
                   completed, completed_processes, current_process, idx>>

NextRoundRobin == round_robin_idle \/ round_robin_slice \/ round_robin_return

\* ---------------------------------------------------------------- priority_scheduling.py
\* `p not in completed_processes`: list membership by dict equality
NotInCompleted(p, done) == \A j \in 1..Len(done) : done[j] # p

\* available_processes, as positions in list order
AvailableProcesses ==
    Filter(1, n, {k \in 1..n : /\ processes[k].arrival_time <= time
                               /\ NotInCompleted(processes[k], completed_processes)})

\* min(p['arrival_time'] for p in processes if p not in completed_processes)
NextArrivalTime ==
    LET S == {processes[k].arrival_time : k \in
                 {j \in 1..n : NotInCompleted(processes[j], completed_processes)}}
    IN CHOOSE a \in S : \A b \in S : a <= b

DictPriorityKey == [k \in 1..n |-> processes[k].priority]

\* min(available_processes, key=lambda p: p['priority'])
SelectHighestPriority(avail) == MinByKey(avail, DictPriorityKey)

\* the result of the empty input: every aggregate is the integer 0
ZeroResult == [avg_waiting_time |-> 0, avg_turnaround_time |-> 0, cpu_utilization |-> 0]

\* faulty variant of AfterResult: the metrics are stored in the selected dict
AfterResultInPlace(ps, k, result) == [ps EXCEPT ![k] = result]

\* the list of dicts after Step 11: `result` is a new dict appended to
\* completed_processes, no dict of the list is written
AfterResult(ps, k, result) == ps

\* Step 1: the empty input returns the zero result; otherwise the list is
\* copied dict by dict and the loop is entered
priority_scheduling_entry ==
    /\ alg = "priority_scheduling" /\ pc = "entry"
    /\ pc' = IF n = 0 THEN "done" ELSE "run"
    /\ ret' = IF n = 0 THEN ZeroResult ELSE ret
    /\ UNCHANGED <<alg, input, time_quantum, prev, comp, visited, res, processes, time,
                   gantt, queue, arrived, completed, completed_processes,
                   current_process, idx>>

\* Step 6: nothing available, jump to the next arrival
priority_scheduling_idle ==
    /\ alg = "priority_scheduling" /\ pc = "run"
    /\ Len(completed_processes) < n
    /\ AvailableProcesses = <<>>
    /\ time' = NextArrivalTime
    /\ UNCHANGED <<alg, input, time_quantum, ret, prev, comp, visited, res, processes, gantt,
                   queue, arrived, completed, completed_processes, current_process,
                   idx, pc>>

\* Steps 7-12: select, run to completion, record the result dict
priority_scheduling_run ==
    /\ alg = "priority_scheduling" /\ pc = "run"
    /\ Len(completed_processes) < n
    /\ AvailableProcesses # <<>>
    /\ LET selected_process == processes[SelectHighestPriority(AvailableProcesses)]
           start_time == time
           burst_time == selected_process.burst_time
           completion_time == start_time + burst_time
           arrival_time == selected_process.arrival_time
           result == [pid |-> selected_process.pid,
                      arrival_time |-> arrival_time,
                      burst_time |-> burst_time,
                      priority |-> selected_process.priority,
                      start_time |-> start_time,
                      completion_time |-> completion_time,
                      waiting_time |-> start_time - arrival_time,
                      turnaround_time |-> completion_time - arrival_time]
       IN /\ gantt' = Append(gantt, <<selected_process.pid, start_time, completion_time>>)
          /\ completed_processes' = Append(completed_processes, result)
          /\ processes' = AfterResult(processes,
                                      SelectHighestPriority(AvailableProcesses), result)
          /\ time' = completion_time
    /\ UNCHANGED <<alg, input, time_quantum, ret, prev, comp, visited, res,
                   queue, arrived, completed, current_process, idx, pc>>

\* Steps 13-15: averages and utilisation over the results list, rounded to
\* two decimals (kept in hundredths)
priority_scheduling_return ==
    /\ alg = "priority_scheduling" /\ pc = "run"
    /\ ~(Len(completed_processes) < n)
    /\ LET m == Len(completed_processes)
           total_waiting_time ==
               SumSeq([j \in 1..m |-> completed_processes[j].waiting_time])
           total_turnaround_time ==
               SumSeq([j \in 1..m |-> completed_processes[j].turnaround_time])
           total_busy_time ==
               SumSeq([j \in 1..m |-> completed_processes[j].burst_time])
           total_time_needed == completed_processes[m].completion_time
       IN ret' = [avg_waiting_time |-> Round2(Div(total_waiting_time, m)),
                  avg_turnaround_time |-> Round2(Div(total_turnaround_time, m)),
                  cpu_utilization |->
                     IF total_time_needed > 0
                       THEN Round2(Div(total_busy_time * 100, total_time_needed))
                       ELSE 0]
    /\ pc' = "done"
    /\ UNCHANGED <<alg, input, time_quantum, prev, comp, visited, res, processes, time,
                   gantt, queue, arrived, completed, completed_processes,
                   current_process, idx>>

NextPriorityScheduling ==
    \/ priority_scheduling_entry \/ priority_scheduling_idle
    \/ priority_scheduling_run \/ priority_scheduling_return

\* ---------------------------------------------------------------- main.py
\* one iteration of `for p in procs` of logic_fcfs
logic_fcfs_step ==
    /\ alg = "logic_fcfs" /\ pc = "run" /\ idx <= n
    /\ LET p == processes[idx]
           t == StartAt(time, p.arrival)
           completion_time == t + p.burst
           turnaround_time == completion_time - p.arrival
       IN /\ processes' = [processes EXCEPT ![idx] =
                 [p EXCEPT !.start = t, !.completion = completion_time,
                           !.turnaround = turnaround_time,
                           !.waiting = turnaround_time - p.burst]]
          /\ time' = completion_time
    /\ idx' = idx + 1
    /\ UNCHANGED <<alg, input, time_quantum, ret, prev, comp, visited, res, gantt, queue, arrived,
                   completed, completed_processes, current_process, pc>>

\* `return procs`
logic_fcfs_return ==
    /\ alg = "logic_fcfs" /\ pc = "run" /\ idx > n
    /\ res' = [k \in 1..n |-> k]
    /\ pc' = "done"
    /\ UNCHANGED <<alg, input, time_quantum, ret, prev, comp, visited, processes, time, gantt,
                   queue, arrived, completed, completed_processes, current_process, idx>>

NextLogicFcfs == logic_fcfs_step \/ logic_fcfs_return

\* avail of logic_sjf and logic_priority
Avail == Filter(1, n, {k \in 1..n : processes[k].arrival <= time /\ ~comp[k]})

PriorityKey == [k \in 1..n |-> processes[k].priority]

\* min(avail, key=lambda i: procs[i].burst_time)
SelectSjfIdx(avail) == MinByKey(avail, BurstKey)

\* min(avail, key=lambda i: procs[i].priority)
SelectPriorityIdx(avail) == MinByKey(avail, PriorityKey)

\* the common body of logic_sjf and logic_priority after idx is chosen
RunToCompletion(k) ==
    LET p == processes[k]
        completion_time == time + p.burst
        turnaround_time == completion_time - p.arrival
    IN /\ processes' = [processes EXCEPT ![k] =
              [p EXCEPT !.start = time, !.completion = completion_time,
                        !.turnaround = turnaround_time,
                        !.waiting = turnaround_time - p.burst]]
       /\ time' = completion_time
       /\ comp' = [comp EXCEPT ![k] = TRUE]
       /\ completed' = completed + 1
       /\ res' = Append(res, k)

logic_sjf_idle ==
    /\ alg = "logic_sjf" /\ pc = "run" /\ completed < n
    /\ time < MaxTime
    /\ Avail = <<>>
    /\ time' = time + 1
    /\ UNCHANGED <<alg, input, time_quantum, ret, prev, comp, visited, res, processes, gantt,
                   queue, arrived, completed, completed_processes, current_process,
                   idx, pc>>

logic_sjf_run ==
    /\ alg = "logic_sjf" /\ pc = "run" /\ completed < n
    /\ Avail # <<>>
    /\ RunToCompletion(SelectSjfIdx(Avail))
    /\ UNCHANGED <<alg, input, time_quantum, ret, prev, visited, gantt, queue, arrived,
                   completed_processes, current_process, idx, pc>>

logic_sjf_return ==
    /\ alg = "logic_sjf" /\ pc = "run" /\ ~(completed < n)
    /\ pc' = "done"
    /\ UNCHANGED <<alg, input, time_quantum, ret, prev, comp, visited, res, processes, time, gantt,
                   queue, arrived, completed, completed_processes, current_process, idx>>

NextLogicSjf == logic_sjf_idle \/ logic_sjf_run \/ logic_sjf_return

logic_priority_idle ==
    /\ alg = "logic_priority" /\ pc = "run" /\ completed < n
    /\ time < MaxTime
    /\ Avail = <<>>
    /\ time' = time + 1
    /\ UNCHANGED <<alg, input, time_quantum, ret, prev, comp, visited, res, processes, gantt,
                   queue, arrived, completed, completed_processes, current_process,
                   idx, pc>>

logic_priority_run ==
    /\ alg = "logic_priority" /\ pc = "run" /\ completed < n
    /\ Avail # <<>>
    /\ RunToCompletion(SelectPriorityIdx(Avail))
    /\ UNCHANGED <<alg, input, time_quantum, ret, prev, visited, gantt, queue, arrived,
                   completed_processes, current_process, idx, pc>>

logic_priority_return ==
    /\ alg = "logic_priority" /\ pc = "run" /\ ~(completed < n)
    /\ pc' = "done"
    /\ UNCHANGED <<alg, input, time_quantum, ret, prev, comp, visited, res, processes, time, gantt,
                   queue, arrived, completed, completed_processes, current_process, idx>>

NextLogicPriority == logic_priority_idle \/ logic_priority_run \/ logic_priority_return

\* `queue, ..., visited = [procs[0]], ..., [False]*len(procs); visited[0] = True`;
\* procs[0] of an empty list raises IndexError
logic_rr_entry ==
    /\ alg = "logic_rr" /\ pc = "entry"
    /\ IF n = 0
         THEN pc' = "error" /\ UNCHANGED <<queue, visited>>
         ELSE /\ pc' = "run"
              /\ queue' = <<1>>
              /\ visited' = [visited EXCEPT ![1] = TRUE]
    /\ UNCHANGED <<alg, input, time_quantum, ret, prev, comp, res, processes, time, gantt,
                   arrived, completed, completed_processes, current_process, idx>>

\* `if not queue: t += 1; <scan>; continue`
logic_rr_idle ==
    /\ alg = "logic_rr" /\ pc = "run" /\ completed < n
    /\ time < MaxTime
    /\ queue = <<>>
    /\ time' = time + 1
    /\ queue' = ArrivedBy(time + 1, visited)
    /\ visited' = Mark(visited, ArrivedBy(time + 1, visited))
    /\ UNCHANGED <<alg, input, time_quantum, ret, prev, comp, res, processes, gantt,
                   arrived, completed, completed_processes, current_process, idx, pc>>

\* pop(0), one slice, scan, re-append or complete
logic_rr_slice ==
    /\ alg = "logic_rr" /\ pc = "run" /\ completed < n
    /\ Len(gantt) < MaxSegments
    /\ queue # <<>>
    /\ LET c == Head(queue)
           curr == processes[c]
           start_this_turn == time
           run == Min2(curr.remaining, time_quantum)
           remaining_time == curr.remaining - run
           t == time + run
           turnaround_time == t - curr.arrival
           scan == ArrivedBy(t, visited)
       IN /\ time' = t
          /\ gantt' = Append(gantt, <<curr.pid, start_this_turn, t>>)
          /\ queue' = (Tail(queue) \o scan) \o (IF remaining_time > 0 THEN <<c>> ELSE <<>>)
          /\ visited' = Mark(visited, scan)
          /\ processes' = [processes EXCEPT ![c] =
                 IF remaining_time > 0
                   THEN [curr EXCEPT !.remaining = remaining_time]
                   ELSE [curr EXCEPT !.remaining = remaining_time,
                                     !.completion = t,
                                     !.turnaround = turnaround_time,
                                     !.waiting = turnaround_time - curr.burst]]
          /\ completed' = IF remaining_time > 0 THEN completed ELSE completed + 1
          /\ res' = IF remaining_time > 0 THEN res ELSE Append(res, c)
    /\ UNCHANGED <<alg, input, time_quantum, ret, prev, comp, arrived, completed_processes,
                   current_process, idx, pc>>

logic_rr_return ==
    /\ alg = "logic_rr" /\ pc = "run" /\ ~(completed < n)
    /\ pc' = "done"
    /\ UNCHANGED <<alg, input, time_quantum, ret, prev, comp, visited, res, processes, time, gantt,
                   queue, arrived, completed, completed_processes, current_process, idx>>

NextLogicRr == logic_rr_entry \/ logic_rr_idle \/ logic_rr_slice \/ logic_rr_return

\* ---------------------------------------------------------------- specifications
Next ==
    \/ NextFcfs \/ NextSjfNonPreemptive \/ NextSjfPreemptive \/ NextRoundRobin
    \/ NextPriorityScheduling
    \/ NextLogicFcfs \/ NextLogicSjf \/ NextLogicPriority \/ NextLogicRr

\* every function of the repository
Spec == Init /\ [][Next]_vars

\* the four stand-alone functions on Process objects and dicts
NextStandalone ==
    NextFcfs \/ NextSjfNonPreemptive \/ NextSjfPreemptive \/ NextRoundRobin

SpecStandalone ==
    InitOf({"fcfs_scheduling", "sjf_non_preemptive", "sjf_preemptive", "round_robin"})
    /\ [][NextStandalone]_vars

\* the three functions that return (pid, start, end) segments
SpecSegments ==
    InitOf({"fcfs_scheduling", "sjf_non_preemptive", "round_robin"})
    /\ [][NextFcfs \/ NextSjfNonPreemptive \/ NextRoundRobin]_vars

SpecRoundRobin == InitOf({"round_robin"}) /\ [][NextRoundRobin]_vars

SpecSjf ==
    InitOf({"sjf_non_preemptive", "logic_sjf"})
    /\ [][NextSjfNonPreemptive \/ NextLogicSjf]_vars

SpecSrtf == InitOf({"sjf_preemptive"}) /\ [][NextSjfPreemptive]_vars

SpecPriority ==
    InitOf({"priority_scheduling", "logic_priority"})
    /\ [][NextPriorityScheduling \/ NextLogicPriority]_vars

SpecLogicRr == InitOf({"logic_rr"}) /\ [][NextLogicRr]_vars

\* ---------------------------------------------------------------- properties
SegmentAlgs == {"fcfs_scheduling", "sjf_non_preemptive", "round_robin"}

Durations(g) == [j \in 1..Len(g) |-> g[j][3] - g[j][2]]
Bursts(inp) == [j \in 1..Len(inp) |-> inp[j].burst]

\* number of Gantt segments of pid k
SegmentsOf(g, k) == Cardinality({j \in 1..Len(g) : g[j][1] = k})

\* C1: when fcfs_scheduling, sjf_non_preemptive or round_robin returns, the
\* segment durations of its Gantt chart add up to the sum of the burst times.
C1_WorkConserved ==
    (pc = "done" /\ alg \in SegmentAlgs)
        => SumSeq(Durations(gantt)) = SumSeq(Bursts(input))

\* a Round Robin run has returned in which some process needed several slices
C1_Witness ==
    /\ pc = "done" /\ alg = "round_robin" /\ Len(input) >= 2
    /\ \E k \in 1..Len(input) : SegmentsOf(gantt, k) >= 2
    /\ \E k \in 1..Len(input) : SegmentsOf(gantt, k) = 1

\* C3: after fcfs_scheduling, sjf_non_preemptive, sjf_preemptive or
\* round_robin finishes, every process has turnaround = completion - arrival,
\* waiting = turnaround - burst, waiting >= 0 and turnaround >= burst.
C3_MetricsConsistent ==
    (pc = "done" /\ alg \in SegmentAlgs \cup {"sjf_preemptive"})
        => \A k \in 1..n :
              /\ processes[k].turnaround = processes[k].completion - processes[k].arrival
              /\ processes[k].waiting = processes[k].turnaround - processes[k].burst
              /\ processes[k].waiting >= 0
              /\ processes[k].turnaround >= processes[k].burst

\* a preemptive run has returned in which a process that arrived late waited
C3_Witness ==
    /\ pc = "done" /\ alg = "sjf_preemptive"
    /\ \E k \in 1..n : processes[k].arrival > 0 /\ processes[k].waiting > 0
    /\ \E k \in 1..n : processes[k].waiting = 0

\* C5: the segments of fcfs_scheduling, sjf_non_preemptive and round_robin
\* are emitted in non-decreasing order of start, each has end > start and
\* each starts no earlier than the previous one ends.
C5_SegmentsOrdered ==
    alg \in SegmentAlgs =>
        /\ \A j \in 1..Len(gantt) : gantt[j][3] > gantt[j][2]
        /\ \A j \in 1..(Len(gantt) - 1) :
              /\ gantt[j + 1][2] >= gantt[j][2]
              /\ gantt[j + 1][2] >= gantt[j][3]

\* an FCFS run has returned with a back-to-back pair and an idle gap
C5_Witness ==
    /\ pc = "done" /\ alg = "fcfs_scheduling" /\ Len(gantt) = 3
    /\ \E j \in 1..2 : gantt[j + 1][2] = gantt[j][3]
    /\ \E j \in 1..2 : gantt[j + 1][2] > gantt[j][3]

\* ---- priority_scheduling.py
ResultPids == [j \in 1..Len(completed_processes) |-> completed_processes[j].pid]

\* C2: priority_scheduling runs each of the n input processes to completion
\* exactly once: n results, one per input process, one Gantt segment per
\* input process, total segment duration equal to the sum of the bursts.
C2_EachProcessOnce ==
    (pc = "done" /\ alg = "priority_scheduling" /\ Len(input) > 0)
        => /\ Len(completed_processes) = Len(input)
           /\ \A k \in 1..Len(input) :
                 /\ Cardinality({j \in 1..Len(completed_processes) :
                                     ResultPids[j] = k}) = 1
                 /\ SegmentsOf(gantt, k) = 1
           /\ Len(gantt) = Len(input)
           /\ SumSeq(Durations(gantt)) = SumSeq(Bursts(input))

\* ---- main.py logic_rr
ArrivalOfPid(k) == input[k].arrival

\* C4: under logic_rr no Gantt segment of a process starts before that
\* process's arrival time, and every process ends with waiting_time >= 0 and
\* turnaround_time >= burst_time.
C4_GuiRrNeverEarly ==
    alg = "logic_rr" =>
        /\ \A j \in 1..Len(gantt) : gantt[j][2] >= ArrivalOfPid(gantt[j][1])
        /\ pc = "done" =>
              \A k \in 1..n : /\ processes[k].waiting >= 0
                              /\ processes[k].turnaround >= processes[k].burst

\* ---- tie-breaking of the selection rules
\* chosen is, among the members of ready with the smallest key, one with the
\* earliest arrival
EarliestOfBest(ready, key, arr, chosen) ==
    LET best == {k \in ready : \A j \in ready : key[k] <= key[j]}
    IN /\ chosen \in best
       /\ \A k \in best : arr[chosen] <= arr[k]

\* ... and, among those of them that arrived together, the first of the input
EarliestThenInputOrder(ready, key, arr, pos, chosen) ==
    LET best == {k \in ready : \A j \in ready : key[k] <= key[j]}
    IN /\ EarliestOfBest(ready, key, arr, chosen)
       /\ \A k \in best : arr[k] = arr[chosen] => pos[chosen] <= pos[k]

\* truly ready dicts of priority_scheduling: arrived, pid not among the results
ReadyDicts ==
    {k \in 1..n : /\ processes[k].arrival_time <= time
                  /\ \A j \in 1..Len(completed_processes) : ResultPids[j] # processes[k].pid}

ReadyObjects == {k \in 1..n : processes[k].arrival <= time /\ ~comp[k]}

\* C6: whenever priority_scheduling or logic_priority selects, it selects a
\* ready process of smallest priority value and, among those, one with the
\* earliest arrival time, whatever the positions in the input list.
C6_PriorityTieBreak ==
    [][/\ (alg = "priority_scheduling" /\ gantt' # gantt) =>
            EarliestOfBest(ReadyDicts, DictPriorityKey,
                           [k \in 1..n |-> processes[k].arrival_time],
                           gantt'[Len(gantt')][1])
       /\ (alg = "logic_priority" /\ res' # res) =>
            EarliestOfBest(ReadyObjects, PriorityKey,
                           [k \in 1..n |-> processes[k].arrival],
                           res'[Len(res')])]_vars

\* C7: at every decision sjf_non_preemptive and logic_sjf select a ready
\* process of smallest burst, among those one of earliest arrival, and input
\* order decides only among equal arrivals.
C7_SjfTieBreak ==
    [][/\ (alg = "sjf_non_preemptive" /\ gantt' # gantt) =>
            EarliestThenInputOrder(
                {k \in 1..n : processes[k].arrival <= time
                              /\ processes[k].completion = None},
                BurstKey, [k \in 1..n |-> processes[k].arrival],
                [k \in 1..n |-> k], gantt'[Len(gantt')][1])
       /\ (alg = "logic_sjf" /\ res' # res) =>
            EarliestThenInputOrder(
                ReadyObjects, BurstKey, [k \in 1..n |-> processes[k].arrival],
                [k \in 1..n |-> k], res'[Len(res')])]_vars

\* C8: at every unit-time decision sjf_preemptive runs a ready process of
\* smallest remaining time and, among those, one with the earliest arrival.
C8_SrtfTieBreak ==
    [][(alg = "sjf_preemptive" /\ time' = time + 1 /\ processes' # processes) =>
            EarliestOfBest(
                {k \in 1..n : processes[k].arrival <= time
                              /\ processes[k].remaining > 0},
                RemainingKey, [k \in 1..n |-> processes[k].arrival],
                current_process')]_vars

\* ---- rr.py queue discipline
\* the position of the process whose pid is k
PosOfPid(k) == CHOOSE c \in 1..n : processes[c].pid = k

\* the places of position k in the sequence q
PlacesIn(q, k) == {j \in 1..Len(q) : q[j] = k}

\* C9: after a slice [start, end] of round_robin every process with arrival
\* in (start, end] that was not yet enqueued is in the queue, in arrival
\* order, ahead of the process that just ran, which is re-appended last when
\* it still has remaining work (and is absent when it has none).
C9_ArrivalsBeforeReturning ==
    [][(alg = "round_robin" /\ gantt' # gantt) =>
          LET seg == gantt'[Len(gantt')]
              c == PosOfPid(seg[1])
              new == {k \in 1..n : /\ seg[2] < processes[k].arrival
                                   /\ processes[k].arrival <= seg[3]
                                   /\ ~arrived[k]}
          IN /\ \A k \in new : Cardinality(PlacesIn(queue', k)) = 1
             /\ \A k1 \in new : \A k2 \in new :
                   processes[k1].arrival < processes[k2].arrival =>
                       \A j1 \in PlacesIn(queue', k1) :
                           \A j2 \in PlacesIn(queue', k2) : j1 < j2
             /\ processes'[c].remaining > 0 =>
                   /\ PlacesIn(queue', c) = {Len(queue')}
                   /\ \A k \in new : \A j \in PlacesIn(queue', k) : j < Len(queue')
             /\ processes'[c].remaining = 0 => PlacesIn(queue', c) = {}]_vars

\* a slice has just ended during which two processes arrived at different
\* times, and the process that ran has been re-appended behind them
C9_Witness ==
    /\ alg = "round_robin" /\ gantt # <<>> /\ Len(queue) >= 3
    /\ LET seg == gantt[Len(gantt)]
           c == queue[Len(queue)]
           k1 == queue[Len(queue) - 2]
           k2 == queue[Len(queue) - 1]
       IN /\ processes[c].pid = seg[1] /\ processes[c].remaining > 0
          /\ seg[2] < processes[k1].arrival
          /\ processes[k1].arrival < processes[k2].arrival
          /\ processes[k2].arrival <= seg[3]

\* C10: at every decision point of round_robin (after the first arrival
\* scan, before the dequeue) the queue holds exactly the processes with
\* arrival <= clock and remaining > 0, each once; the stored queue never holds
\* a completed process, a process that has not arrived, or a process twice.
C10_QueueExact ==
    (alg = "round_robin" /\ pc = "run") =>
        /\ \A k \in 1..n :
              Cardinality(PlacesIn(TopQueue, k)) =
                 (IF processes[k].arrival <= time /\ processes[k].remaining > 0
                    THEN 1 ELSE 0)
        /\ \A j \in 1..Len(queue) :
              /\ processes[queue[j]].remaining > 0
              /\ processes[queue[j]].arrival <= time
              /\ PlacesIn(queue, queue[j]) = {j}

\* a decision point after an idle period: one process has completed and the
\* first scan enqueues two that have arrived since
C10_Witness ==
    /\ alg = "round_robin" /\ pc = "run" /\ completed >= 1
    /\ Len(ArrivedBy(time, arrived)) >= 2 /\ Len(TopQueue) >= 2

\* ---------------------------------------------------------------- termination
\* the four functions with a `while completed < n` policy loop
LoopAlgs == {"sjf_non_preemptive", "sjf_preemptive", "round_robin", "priority_scheduling"}

SpecLoops ==
    InitOf(LoopAlgs)
    /\ [][\/ NextSjfNonPreemptive \/ NextSjfPreemptive \/ NextRoundRobin
          \/ NextPriorityScheduling]_vars

\* the input process with pid k has its completion time set
CompletionSet(k) ==
    IF alg = "priority_scheduling"
      THEN \E j \in 1..Len(completed_processes) :
              /\ completed_processes[j].pid = k
              /\ completed_processes[j].completion_time >=
                    input[k].arrival + input[k].burst
      ELSE \E c \in 1..n :
              /\ processes[c].pid = k
              /\ processes[c].completion # None
              /\ processes[c].completion >= input[k].arrival + input[k].burst

\* C11: when the loop of sjf_non_preemptive, sjf_preemptive, round_robin or
\* priority_scheduling has ended and the function has returned, every input
\* process has its completion time set.
C11_AllCompletedAtReturn ==
    (pc = "done" /\ alg \in LoopAlgs) => \A k \in 1..Len(input) : CompletionSet(k)

\* ---------------------------------------------------------------- two calls on one input
\* what a call leaves to its caller (the list it worked on, the Gantt chart
\* and the aggregates), kept with the list the caller hands to its next call
Returned(list) ==
    [alg |-> alg, processes |-> processes, gantt |-> gantt, ret |-> ret,
     res |-> res, list |-> list]

\* after function first has returned, function second is called on list;
\* what first returned is kept for the comparison
SecondCall(first, second, list) ==
    /\ alg = first /\ pc = "done" /\ prev = NoValue
    /\ prev' = Returned(list)
    /\ alg' = second
    /\ Call(second, list)
    /\ UNCHANGED <<input, time_quantum>>

\* fcfs_scheduling on a fresh copy of the list round_robin was given
round_robin_then_fcfs_scheduling ==
    SecondCall("round_robin", "fcfs_scheduling", CallerList("fcfs_scheduling", input))

\* round_robin with the largest burst as its quantum, then fcfs_scheduling
SpecRrThenFcfs ==
    InitWith({"round_robin"}, 0..MaxN, 0..MaxArrival, 1..MaxBurst, {MaxBurst})
    /\ [][NextRoundRobin \/ round_robin_then_fcfs_scheduling \/ NextFcfs]_vars

\* the object or dict with pid k in the list ps
ByPid(ps, k) == ps[CHOOSE c \in 1..Len(ps) : ps[c].pid = k]

\* the second call has returned
BothReturned(first, second) ==
    pc = "done" /\ alg = second /\ prev # NoValue /\ prev.alg = first

\* C12: when the quantum is at least the largest burst, round_robin emits one
\* segment per process, and its segment sequence and every process's
\* completion, turnaround and waiting time are those of fcfs_scheduling on the
\* same input.
C12_RrDegeneratesToFcfs ==
    (/\ BothReturned("round_robin", "fcfs_scheduling")
     /\ \A k \in 1..Len(input) : input[k].burst <= time_quantum)
        => /\ Len(prev.gantt) = Len(input)
           /\ \A k \in 1..Len(input) : SegmentsOf(prev.gantt, k) = 1
           /\ prev.gantt = gantt
           /\ \A k \in 1..Len(input) :
                 LET r == ByPid(prev.processes, k)
                     f == ByPid(processes, k)
                 IN /\ r.completion = f.completion
                    /\ r.turnaround = f.turnaround
                    /\ r.waiting = f.waiting

\* both have returned on three processes, one with a burst equal to the
\* quantum and one with a shorter burst, with an idle gap and a process that
\* had to wait
C12_Witness ==
    /\ BothReturned("round_robin", "fcfs_scheduling")
    /\ Len(input) = 3
    /\ \A k \in 1..3 : input[k].burst <= time_quantum
    /\ \E k \in 1..3 : input[k].burst = time_quantum
    /\ \E k \in 1..3 : input[k].burst < time_quantum
    /\ \E j \in 1..2 : gantt[j + 1][2] > gantt[j][3]
    /\ \E k \in 1..3 : ByPid(processes, k).waiting > 0

\* ---- fcfs_scheduling on a re-ordered list
\* the re-orderings of a list of m elements
Reorderings(m) ==
    {f \in [1..m -> 1..m] : \A i \in 1..m : \A j \in 1..m : f[i] = f[j] => i = j}

Reordered(list, f) == [k \in 1..Len(list) |-> list[f[k]]]

DistinctArrivals ==
    \A i \in 1..Len(input) : \A j \in 1..Len(input) :
        input[i].arrival = input[j].arrival => i = j

\* fcfs_scheduling once more, on the same processes in another order
fcfs_scheduling_then_reordered ==
    /\ pc = "done" /\ prev = NoValue
    /\ DistinctArrivals
    /\ \E f \in Reorderings(Len(input)) :
          SecondCall("fcfs_scheduling", "fcfs_scheduling",
                     Reordered(CallerList("fcfs_scheduling", input), f))

SpecFcfsReordered ==
    InitOf({"fcfs_scheduling"}) /\ [][NextFcfs \/ fcfs_scheduling_then_reordered]_vars

\* C13: when all arrival times are distinct, fcfs_scheduling on any
\* re-ordering of the input list returns the same segment sequence and the
\* same start, completion, waiting and turnaround time for each process.
C13_FcfsOrderInvariant ==
    (BothReturned("fcfs_scheduling", "fcfs_scheduling") /\ DistinctArrivals)
        => /\ gantt = prev.gantt
           /\ \A k \in 1..Len(input) :
                 LET a == ByPid(prev.processes, k)
                     b == ByPid(processes, k)
                 IN /\ a.start = b.start
                    /\ a.completion = b.completion
                    /\ a.waiting = b.waiting
                    /\ a.turnaround = b.turnaround

\* both calls have returned, the second on three processes handed over in
\* the reverse of their arrival order, the first on another order
C13_Witness ==
    /\ BothReturned("fcfs_scheduling", "fcfs_scheduling") /\ DistinctArrivals
    /\ Len(input) = 3
    /\ prev.list # CallerList("fcfs_scheduling", input)
    /\ \A j \in 1..2 : prev.list[j].arrival > prev.list[j + 1].arrival
    /\ \E k \in 1..3 : ByPid(processes, k).waiting > 0

\* ---- sjf.py: both functions on copies of one list
\* sjf_preemptive on a second deep copy of the list (sjf.py example)
sjf_non_preemptive_then_sjf_preemptive ==
    SecondCall("sjf_non_preemptive", "sjf_preemptive",
               CallerList("sjf_preemptive", input))

SpecSjfThenSrtf ==
    InitOf({"sjf_non_preemptive"})
    /\ [][\/ NextSjfNonPreemptive \/ sjf_non_preemptive_then_sjf_preemptive
          \/ NextSjfPreemptive]_vars

\* the pids of a Gantt chart in the order of their first entry
RECURSIVE FirstOccupancy(_)
FirstOccupancy(g) ==
    IF g = <<>> THEN <<>>
    ELSE LET before == FirstOccupancy(SubSeq(g, 1, Len(g) - 1))
             k == g[Len(g)][1]
         IN IF \E j \in 1..Len(before) : before[j] = k
              THEN before ELSE Append(before, k)

AllArriveAtZero == \A k \in 1..Len(input) : input[k].arrival = 0

\* C14: when every process arrives at time 0, sjf_preemptive and
\* sjf_non_preemptive give each process the same completion, turnaround and
\* waiting time, and the processes first occupy the CPU in the same order in
\* both Gantt charts.
C14_SrtfEqualsSjfAtZero ==
    (BothReturned("sjf_non_preemptive", "sjf_preemptive") /\ AllArriveAtZero)
        => /\ \A k \in 1..Len(input) :
                 LET a == ByPid(prev.processes, k)
                     b == ByPid(processes, k)
                 IN /\ a.completion = b.completion
                    /\ a.turnaround = b.turnaround
                    /\ a.waiting = b.waiting
           /\ FirstOccupancy(prev.gantt) = FirstOccupancy(gantt)

\* both have returned on three processes that all arrived at 0, two of them
\* with equal bursts, and the run order is not the list order
C14_Witness ==
    /\ BothReturned("sjf_non_preemptive", "sjf_preemptive") /\ AllArriveAtZero
    /\ Len(input) = 3
    /\ \E i \in 1..3 : \E j \in 1..3 : i # j /\ input[i].burst = input[j].burst
    /\ FirstOccupancy(gantt) # <<1, 2, 3>>
    /\ Len(FirstOccupancy(gantt)) = 3

\* ---------------------------------------------------------------- unvalidated input
\* add_process and the functions accept any integers: arrivals and bursts
\* are drawn from -MaxInvalid upwards
SpecUnvalidated ==
    InitWith({"fcfs_scheduling", "sjf_preemptive"}, 0..MaxN,
             (0 - MaxInvalid)..MaxArrival, (0 - MaxInvalid)..MaxBurst, {0})
    /\ [][NextFcfs \/ NextSjfPreemptive]_vars

InvalidProcess(p) == p.arrival < 0 \/ p.burst <= 0

\* no loop iteration has run and nothing has been returned
NotStarted ==
    /\ pc # "done"
    /\ time = 0 /\ gantt = <<>> /\ idx = 1 /\ completed = 0
    /\ processes = WorkingList(alg, CallerList(alg, input))

\* C15: a list holding a process with arrival_time < 0 or burst_time <= 0 is
\* rejected before the simulation starts: no loop iteration runs on it and
\* no result is returned.
C15_InvalidRejected ==
    (\E k \in 1..Len(input) : InvalidProcess(input[k])) => NotStarted

\* the quantum is taken as it is: int(self.quantum_entry.get()) in
\* run_simulation, the time_quantum argument of round_robin
SpecUnvalidatedQuantum ==
    InitWith({"round_robin", "logic_rr"}, 0..MaxN, 0..MaxArrival, 1..MaxBurst,
             (0 - MaxInvalid)..MaxQuantum)
    /\ [][NextRoundRobin \/ NextLogicRr]_vars

\* C16: a Round Robin run with a quantum <= 0 is rejected before the
\* simulation starts: the loop of round_robin / logic_rr executes no slice and
\* never moves the clock with such a quantum.
C16_QuantumRejected ==
    (UsesQuantum(alg) /\ time_quantum <= 0) => (gantt = <<>> /\ time = 0)

\* ---------------------------------------------------------------- empty input
\* the functions named for the empty input
EmptyInputAlgs ==
    {"fcfs_scheduling", "priority_scheduling", "sjf_non_preemptive", "sjf_preemptive",
     "round_robin", "logic_rr"}

\* the aggregates a function returns are all zero (fcfs_scheduling and
\* priority_scheduling return aggregates, the other functions return none)
ZeroAggregates ==
    CASE alg = "fcfs_scheduling" ->
            /\ ret # NoValue
            /\ SameNumber(ret.avg_waiting_time, <<0, 1>>)
            /\ SameNumber(ret.avg_turnaround_time, <<0, 1>>)
            /\ SameNumber(ret.cpu_utilization, <<0, 1>>)
      [] alg = "priority_scheduling" ->
            /\ ret # NoValue
            /\ ret.avg_waiting_time = 0
            /\ ret.avg_turnaround_time = 0
            /\ ret.cpu_utilization = 0
      [] OTHER -> TRUE

\* C17: called with zero processes, fcfs_scheduling, priority_scheduling,
\* sjf_non_preemptive, sjf_preemptive, round_robin and logic_rr never fail,
\* and what they return is an empty process list, an empty Gantt chart and
\* zero aggregates.
C17_EmptyInputZeroResult ==
    (alg \in EmptyInputAlgs /\ Len(input) = 0) =>
        /\ pc # "error"
        /\ pc = "done" =>
              /\ processes = <<>> /\ completed_processes = <<>> /\ res = <<>>
              /\ gantt = <<>>
              /\ ZeroAggregates

\* ---------------------------------------------------------------- aggregates
SpecPriorityScheduling == InitOf({"priority_scheduling"}) /\ [][NextPriorityScheduling]_vars

SpecFcfs == InitOf({"fcfs_scheduling"}) /\ [][NextFcfs]_vars

\* largest and smallest member of a non-empty set of integers
MaxOf(S) == CHOOSE x \in S : \A y \in S : y <= x
MinOf(S) == CHOOSE x \in S : \A y \in S : x <= y

\* 100 * (sum of the burst times) / (last - first) as an exact quotient, 0
\* when the denominator is 0
Utilization(last, first) ==
    IF last - first = 0 THEN <<0, 1>>
    ELSE <<100 * SumSeq(Bursts(input)), last - first>>

\* C18: for a non-empty input the cpu_utilization returned by
\* priority_scheduling is 100 * (sum of the burst times) / (largest
\* completion time - smallest arrival time), to the two decimals returned, and
\* 0 when that denominator is 0.
C18_PriorityUtilization ==
    (pc = "done" /\ alg = "priority_scheduling" /\ Len(input) > 0) =>
        ret.cpu_utilization =
            Round2(Utilization(
                MaxOf({completed_processes[j].completion_time :
                          j \in 1..Len(completed_processes)}),
                MinOf({input[k].arrival : k \in 1..Len(input)})))

\* the segment of pid k in a Gantt chart that holds one segment per process
SegmentOfPid(g, k) == g[CHOOSE j \in 1..Len(g) : g[j][1] = k]

\* C19: the cpu_utilization returned by fcfs_scheduling is 100 * (sum of the
\* burst times) / (final completion time - earliest arrival time), and 0 for
\* the empty input; avg_waiting_time and avg_turnaround_time are the sums of
\* the per-process waiting (start - arrival) and turnaround (completion -
\* arrival) times divided by the number of processes.
C19_FcfsAggregates ==
    (pc = "done" /\ alg = "fcfs_scheduling") =>
        IF Len(input) = 0
          THEN SameNumber(ret.cpu_utilization, <<0, 1>>)
          ELSE LET m == Len(input)
                   waits == [k \in 1..m |-> SegmentOfPid(gantt, k)[2] - input[k].arrival]
                   turns == [k \in 1..m |-> SegmentOfPid(gantt, k)[3] - input[k].arrival]
               IN /\ SameNumber(ret.cpu_utilization,
                        Utilization(MaxOf({gantt[j][3] : j \in 1..Len(gantt)}),
                                    MinOf({input[k].arrival : k \in 1..m})))
                  /\ SameNumber(ret.avg_waiting_time, <<SumSeq(waits), m>>)
                  /\ SameNumber(ret.avg_turnaround_time, <<SumSeq(turns), m>>)

\* a run on three processes, not handed over in arrival order, has returned
\* with an idle gap (utilisation below 100) and averages that are not whole
\* numbers
C19_Witness ==
    /\ pc = "done" /\ alg = "fcfs_scheduling" /\ Len(input) = 3
    /\ \E j \in 1..2 : gantt[j + 1][2] > gantt[j][3]
    /\ input[1].arrival > input[2].arrival
    /\ ~SameNumber(ret.cpu_utilization, <<100, 1>>)
    /\ ret.avg_waiting_time[1] % 3 # 0
    /\ ret.avg_turnaround_time[1] % 3 # 0

\* ---------------------------------------------------------------- Example 1
\* P1(arrival 0, burst 8), P2(1, 4), P3(2, 2); pid = position
processes_example1 ==
    <<[arrival |-> 0, burst |-> 8, priority |-> 1],
      [arrival |-> 1, burst |-> 4, priority |-> 1],
      [arrival |-> 2, burst |-> 2, priority |-> 1]>>

\* fcfs_scheduling on lists of three processes with the arrival and burst
\* times of the example
SpecExample1 ==
    InitWith({"fcfs_scheduling"}, {Len(processes_example1)},
             {processes_example1[k].arrival : k \in 1..Len(processes_example1)},
             {processes_example1[k].burst : k \in 1..Len(processes_example1)}, {0})
    /\ [][NextFcfs]_vars

\* C20: for P1(0,8), P2(1,4), P3(2,2) fcfs_scheduling yields the Gantt chart
\* [(P1,0,8),(P2,8,12),(P3,12,14)], waiting times [0,7,10], turnaround times
\* [8,11,12], average waiting 17/3 (5.67), average turnaround 31/3 (10.33)
\* and CPU utilization 100.
C20_FcfsExample ==
    (pc = "done" /\ alg = "fcfs_scheduling" /\ input = processes_example1) =>
        /\ gantt = <<<<1, 0, 8>>, <<2, 8, 12>>, <<3, 12, 14>>>>
        /\ [k \in 1..3 |-> ByPid(processes, k).waiting] = <<0, 7, 10>>
        /\ [k \in 1..3 |-> ByPid(processes, k).turnaround] = <<8, 11, 12>>
        /\ SameNumber(ret.avg_waiting_time, <<17, 3>>)
        /\ Round2(ret.avg_waiting_time) = 567
        /\ SameNumber(ret.avg_turnaround_time, <<31, 3>>)
        /\ Round2(ret.avg_turnaround_time) = 1033
        /\ SameNumber(ret.cpu_utilization, <<100, 1>>)

\* the run on the example list has returned
C20_Witness ==
    /\ pc = "done" /\ alg = "fcfs_scheduling" /\ input = processes_example1
    /\ Len(gantt) = 3 /\ ret # NoValue

\* ---------------------------------------------------------------- rr.py example
\* the quantum of the example of rr.py
example_time_quantum == 3

\* round_robin on lists of three processes with the arrival and burst times
\* of the example (the same three processes as Example 1), quantum 3
SpecExampleRr ==
    InitWith({"round_robin"}, {Len(processes_example1)},
             {processes_example1[k].arrival : k \in 1..Len(processes_example1)},
             {processes_example1[k].burst : k \in 1..Len(processes_example1)},
             {example_time_quantum})
    /\ [][NextRoundRobin]_vars

\* C21: for P1(0,8), P2(1,4), P3(2,2) and quantum 3 round_robin yields the
\* segments [(P1,0,3),(P2,3,6),(P3,6,8),(P1,8,11),(P2,11,12),(P1,12,14)] and
\* the completion times P1 = 14, P2 = 12, P3 = 8.
C21_RrExample ==
    (/\ pc = "done" /\ alg = "round_robin" /\ input = processes_example1
     /\ time_quantum = example_time_quantum) =>
        /\ gantt = <<<<1, 0, 3>>, <<2, 3, 6>>, <<3, 6, 8>>,
                     <<1, 8, 11>>, <<2, 11, 12>>, <<1, 12, 14>>>>
        /\ [k \in 1..3 |-> ByPid(processes, k).completion] = <<14, 12, 8>>

\* the run on the example list has returned
C21_Witness ==
    /\ pc = "done" /\ alg = "round_robin" /\ input = processes_example1
    /\ time_quantum = example_time_quantum
    /\ Len(gantt) = 6 /\ completed = 3

\* ---------------------------------------------------------------- main.py run_simulation
\* the four functions run_simulation dispatches to
GuiAlgs == {"logic_fcfs", "logic_sjf", "logic_priority", "logic_rr"}

\* faulty variant of StoredProcesses: `data = self.processes`, the function
\* works on the stored objects themselves
StoredProcessesShared(added, data) == data

\* self.processes while and after a function works on data: data is
\* copy.deepcopy(self.processes), so the stored objects keep the values
\* add_process gave them
StoredProcesses(added, data) == added

self_processes == StoredProcesses(Objects(alg, input), processes)

\* run_simulation once more with the same choice and the same quantum entry
run_simulation_again ==
    /\ pc = "done" /\ prev = NoValue
    /\ SecondCall(alg, alg, self_processes)

\* run_simulation on a stored list (an empty list returns at once), twice
SpecRunSimulation ==
    InitWith(GuiAlgs, 1..MaxN, 0..MaxArrival, 1..MaxBurst, 1..MaxQuantum)
    /\ [][\/ NextLogicFcfs \/ NextLogicSjf \/ NextLogicPriority \/ NextLogicRr
          \/ run_simulation_again]_vars

Executed == CHOOSE k \in 1..n : processes'[k].remaining # processes[k].remaining

\* a step that executes one unit
ExecutesUnit == alg = "sjf_preemptive" /\ processes' # processes

\* C23: sjf_preemptive appends the entry (pid, time) exactly at the units
\* whose process differs from the process of the most recent executed unit,
\* and at the first executed unit; a unit in which the same process continues
\* and an idle unit append nothing, and two consecutive entries never name
\* the same process.
C23_ContextSwitchRecorded ==
    [][alg = "sjf_preemptive" =>
          /\ ExecutesUnit =>
                IF current_process = 0 \/ current_process # Executed
                  THEN gantt' = Append(gantt, <<processes[Executed].pid, time>>)
                  ELSE gantt' = gantt
          /\ ~ExecutesUnit => gantt' = gantt
          /\ \A j \in 1..(Len(gantt') - 1) : gantt'[j][1] # gantt'[j + 1][1]]_vars

\* a process ran two units in a row, was preempted and has resumed
C23_Witness ==
    /\ alg = "sjf_preemptive" /\ Len(gantt) = 3
    /\ gantt[1][1] = gantt[3][1]
    /\ gantt[2][2] - gantt[1][2] >= 2

\* C24: every unit step of sjf_preemptive executes one process that has
\* arrived (arrival <= clock), lowers its remaining time by exactly one, never
\* below 0, and leaves every other process alone; the completion time is set,
\* to the clock just after the step, in the step that brings the remaining
\* time to 0 and in no other; at return every remaining time is 0, so each
\* process was executed for exactly burst units.
C24_SrtfAccounting ==
    [][alg = "sjf_preemptive" =>
          /\ ExecutesUnit =>
                /\ processes[Executed].arrival <= time
                /\ time' = time + 1
                /\ processes'[Executed].remaining = processes[Executed].remaining - 1
                /\ processes'[Executed].remaining >= 0
                /\ processes[Executed].completion = None
                /\ processes'[Executed].completion =
                      (IF processes'[Executed].remaining = 0 THEN time' ELSE None)
                /\ \A k \in 1..n : k # Executed => processes'[k] = processes[k]
          /\ pc' = "done" =>
                \A k \in 1..n : /\ processes[k].remaining = 0
                                /\ processes[k].completion # None
                                /\ processes[k].completion
                                      >= processes[k].arrival + processes[k].burst]_vars

\* a run on three processes has returned in which a process was preempted
\* and finished after a process that arrived later
C24_Witness ==
    /\ alg = "sjf_preemptive" /\ pc = "done" /\ Len(input) = 3
    /\ \E k \in 1..3 : SegmentsOf(gantt, k) >= 2
    /\ \E i \in 1..3 : \E j \in 1..3 :
          /\ processes[i].arrival < processes[j].arrival
          /\ processes[i].completion > processes[j].completion

\* ---------------------------------------------------------------- idle handling
IdleAlgs == {"sjf_non_preemptive", "priority_scheduling"}

\* sjf_non_preemptive steps through an idle period unit by unit,
\* priority_scheduling jumps over it
SpecIdle ==
    InitOf(IdleAlgs) /\ [][NextSjfNonPreemptive \/ NextPriorityScheduling]_vars

\* pids of the input processes that no segment has run yet
NotYetCompleted == {k \in 1..Len(input) : SegmentsOf(gantt, k) = 0}

\* the earliest arrival among the processes of S (S not empty)
MinArrival(S) == MinOf({input[k].arrival : k \in S})

\* end of the last segment emitted so far, 0 before the first
LastEnd == IF gantt = <<>> THEN 0 ELSE gantt[Len(gantt)][3]

\* C25: in sjf_non_preemptive and priority_scheduling a step that advances
\* the clock without emitting a segment is taken only when no process that
\* has arrived is still without a segment, and it never moves the clock past
\* the earliest arrival among the processes without a segment; a segment
\* emitted after an idle period (its start lies after the end of the previous
\* segment, or after 0 for the first) starts exactly at that earliest arrival.
C25_IdleUntilNextArrival ==
    [][(alg \in IdleAlgs) =>
          /\ (time' # time /\ gantt' = gantt) =>
                /\ \A k \in NotYetCompleted : input[k].arrival > time
                /\ NotYetCompleted # {}
                /\ time' > time
                /\ time' <= MinArrival(NotYetCompleted)
                /\ alg = "priority_scheduling" => time' = MinArrival(NotYetCompleted)
          /\ gantt' # gantt =>
                /\ Len(gantt') = Len(gantt) + 1
                /\ gantt'[Len(gantt')][2] = time
                /\ time >= LastEnd
                /\ time > LastEnd =>
                      /\ NotYetCompleted # {}
                      /\ time = MinArrival(NotYetCompleted)]_vars

\* sjf_non_preemptive has returned from a run on three processes whose CPU was
\* idle between two segments
C25_Witness ==
    /\ alg = "sjf_non_preemptive" /\ pc = "done" /\ Len(gantt) = 3
    /\ \E j \in 1..2 : gantt[j + 1][2] > gantt[j][3]

\* ---------------------------------------------------------------- Complete is terminal
\* the three functions that mark a finished process through its completion field
CompletionAlgs == {"sjf_non_preemptive", "sjf_preemptive", "round_robin"}

\* round_robin is run with the largest quantum, under which a process takes
\* one or two slices
SpecCompletion ==
    InitWith(CompletionAlgs, 0..MaxN, 0..MaxArrival, 1..MaxBurst, {MaxQuantum})
    /\ [][NextSjfNonPreemptive \/ NextSjfPreemptive \/ NextRoundRobin]_vars

\* the value of the completion field before it is set: None in sjf.py, 0 in rr.py
Unset == IF alg = "round_robin" THEN 0 ELSE None

\* the step appends a Gantt entry for pid p
EmitsFor(p) ==
    /\ Len(gantt') = Len(gantt) + 1
    /\ gantt'[Len(gantt')][1] = p

\* C26: in sjf_non_preemptive, sjf_preemptive and round_robin, once the
\* completion time of a process is set, no later step of the run selects the
\* process (its remaining time and every other field stay as they are, so
\* completion, turnaround and waiting are written once) and no later step
\* appends a Gantt entry for it; a step sets the completion time of at most
\* one process, and only of a process whose completion time was not set.
C26_CompleteIsTerminal ==
    [][(alg \in CompletionAlgs) =>
          /\ \A k \in 1..n :
                processes[k].completion # Unset =>
                    /\ processes'[k] = processes[k]
                    /\ ~EmitsFor(processes[k].pid)
          /\ Cardinality({k \in 1..n : processes'[k].completion # processes[k].completion}) <= 1
          /\ completed' = Cardinality({k \in 1..n : processes'[k].completion # Unset})]_vars

\* a Round Robin run in which a process has completed while another, which
\* has already run, still has work: a later step must pass over the first
C26_Witness ==
    /\ alg = "round_robin" /\ pc = "run" /\ n = 3
    /\ \E k \in 1..3 : processes[k].completion # 0 /\ SegmentsOf(gantt, processes[k].pid) >= 2
    /\ \E k \in 1..3 : /\ processes[k].completion = 0
                       /\ processes[k].remaining < processes[k].burst

\* ---------------------------------------------------------------- Round Robin slices
\* the segment a step appends, and the position of the process it ran
NewSegment == gantt'[Len(gantt')]
Sliced == CHOOSE c \in 1..n : processes[c].pid = NewSegment[1]

\* C27: every step of round_robin that emits a segment runs one process for
\* min(its remaining time, quantum) units: the segment's length is the
\* remaining time when that is at most the quantum and the quantum otherwise,
\* it lies between 1 and the quantum, the remaining time of the process goes
\* down by exactly that length and no other process's remaining time changes;
\* a segment shorter than the quantum leaves the process with nothing to run,
\* and no later segment of the Gantt chart belongs to the same process.
C27_SliceLength ==
    [][(alg = "round_robin" /\ gantt' # gantt) =>
          LET length == NewSegment[3] - NewSegment[2]
              before == processes[Sliced].remaining
          IN /\ Len(gantt') = Len(gantt) + 1
             /\ NewSegment[2] = time /\ NewSegment[3] = time'
             /\ length = (IF before <= time_quantum THEN before ELSE time_quantum)
             /\ length >= 1 /\ length <= time_quantum
             /\ processes'[Sliced].remaining = before - length
             /\ \A k \in 1..n : k # Sliced => processes'[k].remaining = processes[k].remaining
             /\ length < time_quantum => processes'[Sliced].remaining = 0
             /\ \A i \in 1..Len(gantt) :
                   gantt[i][3] - gantt[i][2] < time_quantum => gantt[i][1] # NewSegment[1]]_vars

\* a Round Robin run has returned in which a process ran a full quantum and
\* then a shorter last slice, while another process ran full slices only
C27_Witness ==
    /\ alg = "round_robin" /\ pc = "done" /\ time_quantum = MaxQuantum
    /\ \E i \in 1..Len(gantt) : \E j \in 1..Len(gantt) :
          /\ i < j /\ gantt[i][1] = gantt[j][1]
          /\ gantt[i][3] - gantt[i][2] = time_quantum
          /\ gantt[j][3] - gantt[j][2] < time_quantum
    /\ \E k \in 1..n : \A j \in 1..Len(gantt) :
          gantt[j][1] = processes[k].pid => gantt[j][3] - gantt[j][2] = time_quantum

\* ---------------------------------------------------------------- FCFS ordering
\* Python max(a, b)
Max2(a, b) == IF a >= b THEN a ELSE b

\* C28: when fcfs_scheduling returns, its Gantt chart holds every input
\* process once, in ascending order of arrival time with processes of equal
\* arrival time in their input order; every process starts at the larger of
\* its arrival time and the completion time of the process run before it (0
\* for the first) and completes burst time units later, and the start_time
\* and completion_time written to the process are those of its segment.
C28_FcfsOrdering ==
    (alg = "fcfs_scheduling" /\ pc = "done") =>
        /\ Len(gantt) = Len(input)
        /\ \A k \in 1..Len(input) : SegmentsOf(gantt, k) = 1
        /\ \A j \in 1..(Len(gantt) - 1) :
              LET a == gantt[j][1]
                  b == gantt[j + 1][1]
              IN \/ input[a].arrival < input[b].arrival
                 \/ input[a].arrival = input[b].arrival /\ a < b
        /\ \A j \in 1..Len(gantt) :
              LET p == gantt[j][1]
                  before == IF j = 1 THEN 0 ELSE gantt[j - 1][3]
              IN /\ gantt[j][2] = Max2(before, input[p].arrival)
                 /\ gantt[j][3] = gantt[j][2] + input[p].burst
                 /\ ByPid(processes, p).start = gantt[j][2]
                 /\ ByPid(processes, p).completion = gantt[j][3]

\* fcfs_scheduling has returned from a run on three processes given out of
\* arrival order, two of them with the same arrival time, with the CPU idle
\* before the second segment
C28_Witness ==
    /\ alg = "fcfs_scheduling" /\ pc = "done" /\ Len(input) = 3
    /\ input[1].arrival = input[3].arrival
    /\ input[2].arrival < input[1].arrival
    /\ gantt[2][2] > gantt[1][3]
    /\ gantt[3][2] = gantt[2][3]

\* ---------------------------------------------------------------- frame of priority_scheduling
InputKeys == {"pid", "arrival_time", "burst_time", "priority"}
MetricKeys == {"start_time", "completion_time", "waiting_time", "turnaround_time"}

\* C29: throughout a call of priority_scheduling, and after it, the list of
\* process dicts has the length and order the caller gave it and every dict
\* has exactly the four input keys with the values given; the computed
\* metrics are found only in the dicts of the returned results, each of which
\* repeats the four input values of its process.
C29_ArgumentUnchanged ==
    alg = "priority_scheduling" =>
        /\ Len(processes) = Len(input)
        /\ \A k \in 1..Len(input) :
              /\ DOMAIN processes[k] = InputKeys
              /\ processes[k] = [pid |-> k, arrival_time |-> input[k].arrival,
                                 burst_time |-> input[k].burst,
                                 priority |-> input[k].priority]
        /\ \A j \in 1..Len(completed_processes) :
              LET r == completed_processes[j]
              IN /\ DOMAIN r = InputKeys \cup MetricKeys
                 /\ r.arrival_time = input[r.pid].arrival
                 /\ r.burst_time = input[r.pid].burst
                 /\ r.priority = input[r.pid].priority

\* priority_scheduling has returned three results, one of them for a process
\* that waited
C29_Witness ==
    /\ alg = "priority_scheduling" /\ pc = "done" /\ Len(input) = 3
    /\ Len(completed_processes) = 3
    /\ \E j \in 1..3 : completed_processes[j].waiting_time > 0
    /\ ret # NoValue

\* ---------------------------------------------------------------- the two Round Robin implementations
\* logic_rr on a fresh list of main.py Process objects built from the
\* parameters round_robin was given, with the same quantum
round_robin_then_logic_rr ==
    SecondCall("round_robin", "logic_rr", Objects("logic_rr", input))

SomeArrivesAtZero == \E k \in 1..Len(input) : input[k].arrival = 0

\* a first call of round_robin on a non-empty list in which some process
\* arrives at time 0
InitArrivalAtZero ==
    /\ InitWith({"round_robin"}, 1..MaxN, 0..MaxArrival, 1..MaxBurst, 1..MaxQuantum)
    /\ SomeArrivesAtZero

\* round_robin, then logic_rr
SpecRrThenLogicRr ==
    InitArrivalAtZero
    /\ [][NextRoundRobin \/ round_robin_then_logic_rr \/ NextLogicRr]_vars

\* C30: on a non-empty input in which some process arrives at time 0,
\* logic_rr returns normally and its Gantt log is, segment by segment, the
\* Gantt chart round_robin returned for the same input and quantum, and every
\* process has the same completion, turnaround and waiting time under both.
C30_RrImplementationsAgree ==
    (alg = "logic_rr" /\ prev # NoValue /\ SomeArrivesAtZero) =>
        /\ pc # "error"
        /\ pc = "done" =>
              /\ gantt = prev.gantt
              /\ \A k \in 1..Len(input) :
                    /\ ByPid(processes, k).completion = ByPid(prev.processes, k).completion
                    /\ ByPid(processes, k).turnaround = ByPid(prev.processes, k).turnaround
                    /\ ByPid(processes, k).waiting = ByPid(prev.processes, k).waiting

\* both functions have returned from a run on three processes given out of
\* arrival order, one arriving at 0 and one arriving while another runs, in
\* which some process was preempted and the CPU was idle once
C30_Witness ==
    /\ BothReturned("round_robin", "logic_rr") /\ Len(input) = 3
    /\ input[1].arrival > 0 /\ SomeArrivesAtZero
    /\ \E k \in 1..3 : SegmentsOf(gantt, k) >= 2
    /\ \E j \in 1..(Len(gantt) - 1) : gantt[j + 1][2] > gantt[j][3]
====
